---------------------------- MODULE Spec2Model ----------------------------
(***************************************************************************)
(* Model of scripts/drive_differential.py (class DriveDifferential).       *)
(*                                                                         *)
(* Two threads share the object: the rospy subscriber thread that runs     *)
(* the /cmd_vel callback set_actuators_from_cmdvel, and the main thread    *)
(* that runs the loop of run().  The source takes no lock, so the threads  *)
(* interleave between any two hardware calls.  The motor driver is the     *)
(* pair of functions motor_speed / motor_dir: the last duty cycle and the  *)
(* last direction each channel was given.                                  *)
(*                                                                         *)
(* Floats are modelled exactly as integers in fixed units.  A twist        *)
(* component and a gain is a multiple of 1/Den; a wheel speed is a         *)
(* multiple of 1/WheelDen with WheelDen = 2*Den^3, which is the exact      *)
(* denominator of k_speed*(linear -+ 0.5*k_angular*angular).               *)
(* time.time() is modelled as the clock `now`, in whole seconds.           *)
(***************************************************************************)
EXTENDS Integers, Sequences, FiniteSets

(* ------------------------------ bounds -------------------------------- *)
\* resolution of the modelled twist components and gains: multiples of 1/Den
Den == 2
\* the clock stops at MaxTime seconds
MaxTime == 10

(* ------------------------- program constants -------------------------- *)
motor_left_ID == 1
motor_right_ID == 2
timeout_s == 5

MotorIDs == {motor_left_ID, motor_right_ID}
FORWARD == "FORWARD"
BACKWARD == "BACKWARD"
RELEASE == "RELEASE"

\* denominator of a wheel speed
WheelDen == 2 * Den * Den * Den

(* --------------------------- input domains ---------------------------- *)
\* /drive/max_pwm: the full range of the motor driver
MaxPwmValues == {255}
\* /drive/k_speed and /drive/k_angular, in units of 1/Den: 1.0 and 1/Den
KSpeedValues == {Den, 1}
KAngularValues == {Den}
\* msg.linear.x and msg.angular.z, in units of 1/Den: -1.0, 0, 1.0
LinearValues == {-Den, 0, Den}
AngularValues == {0, Den}
\* wider domains for the command path taken alone: every small ceiling and
\* a large one, negative and fractional gains, twist components beyond
\* the nominal [-1, 1]
WideMaxPwmValues == (1 .. 4) \cup {255}
WideKSpeedValues == {-Den, 1, Den}
WideKAngularValues == {1, Den, 2 * Den}
WideTwistValues == (-Den - 1) .. (Den + 1)
\* Imu messages on /imu; NoImu is the empty Imu() of line 49
NoImu == "Imu()"
ImuSamples == {"imu_a", "imu_b"}
\* arguments of a direct call of send_motor_msg with an unknown motor
InvalidMotorIDs == {0, 3}
DirectValues == {-WheelDen, 0, WheelDen \div 2}

VARIABLES
    has_param,          \* rospy.has_param('/drive') at construction
    max_pwm,            \* self.max_pwm   (set only when has_param)
    k_speed,            \* self.k_speed   (units of 1/Den; set only when has_param)
    k_angular,          \* self.k_angular (units of 1/Den; set only when has_param)
    now,                \* time.time()
    last_time_cmd_rcv,  \* self._last_time_cmd_rcv
    received,           \* some Twist has been delivered to the callback
    msg,                \* the Twist of the latest callback invocation
    lmotor_speed,       \* callback local, units of 1/WheelDen
    rmotor_speed,       \* callback local, units of 1/WheelDen
    hpc,                \* position of the /cmd_vel callback thread
    hcalls,             \* hardware calls made by the latest callback invocation
    tpc,                \* position of the main thread inside run()
    connected,          \* value of is_controller_connected read by this iteration
    tcalls,             \* hardware calls made by the current loop iteration
    motor_speed,        \* duty cycle last given to each channel
    motor_dir,          \* direction last given to each channel
    shutdown,           \* rospy.is_shutdown()
    imu_msg             \* self.imu_msg

vars == <<has_param, max_pwm, k_speed, k_angular, now, last_time_cmd_rcv,
          received, msg, lmotor_speed, rmotor_speed, hpc, hcalls, tpc,
          connected, tcalls, motor_speed, motor_dir, shutdown, imu_msg>>

config == <<has_param, max_pwm, k_speed, k_angular>>
handler == <<received, msg, lmotor_speed, rmotor_speed, hpc, hcalls>>
loop == <<tpc, connected, tcalls>>
motors == <<motor_speed, motor_dir>>

(* --------------------------- pure functions --------------------------- *)
Abs(x) == IF x < 0 THEN -x ELSE x
Max(a, b) == IF b > a THEN b ELSE a
Min(a, b) == IF b < a THEN b ELSE a
\* int(n/d) for d > 0: truncation toward zero
IntOf(n, d) == IF n >= 0 THEN n \div d ELSE -((-n) \div d)

\* lines 73-74, numerators over WheelDen:
\*   k_speed*(linear -+ 0.5*k_angular*angular)
\* (variant: the factor 0.5 left out of the left wheel)
LeftSpeed_NoHalf(ks, ka, lin, ang) == ks * (2 * Den * lin - 2 * ka * ang)
LeftSpeed(ks, ka, lin, ang) == ks * (2 * Den * lin - ka * ang)
RightSpeed(ks, ka, lin, ang) == ks * (2 * Den * lin + ka * ang)

\* line 85: int(min(max(abs(value * max_pwm), 0), max_pwm)),
\* value = v / WheelDen
\* (variants: without the min(..., max_pwm); with int(round(...)))
PwmSpeed_NoCeiling(v, mp) == IntOf(Max(Abs(v * mp), 0), WheelDen)
PwmSpeed_Rounded(v, mp) ==
    (2 * Min(Max(Abs(v * mp), 0), mp * WheelDen) + WheelDen) \div (2 * WheelDen)
PwmSpeed(v, mp) == IntOf(Min(Max(Abs(v * mp), 0), mp * WheelDen), WheelDen)

\* lines 99-103 (variant: value >= 0)
RunDirection_NonStrict(v) == IF v >= 0 THEN FORWARD ELSE BACKWARD
RunDirection(v) == IF v > 0 THEN FORWARD ELSE BACKWARD

\* line 116 (variants: <= in place of <; the difference taken the other
\* way round)
IsControllerConnected_Inclusive == now - last_time_cmd_rcv <= timeout_s
IsControllerConnected_Swapped == last_time_cmd_rcv - now < timeout_s
IsControllerConnected == now - last_time_cmd_rcv < timeout_s

SetSpeedCall(m, s) == [motor |-> m, op |-> "setSpeed", speed |-> s, dir |-> "-"]
RunCall(m, d) == [motor |-> m, op |-> "run", speed |-> 0, dir |-> d]

(* ------------------------------- Init --------------------------------- *)
\* State after __init__ (lines 22-60).  The motor driver starts with all
\* outputs off.
\* (variant: the timestamp seeded with a time long past, not with the
\* construction time)
InitCommon_StaleSeed ==
    /\ now = 0
    /\ last_time_cmd_rcv = -timeout_s
    /\ received = FALSE
    /\ msg = [linear |-> 0, angular |-> 0]
    /\ lmotor_speed = 0
    /\ rmotor_speed = 0
    /\ hpc = "wait"
    /\ hcalls = << >>
    /\ tpc = "loop"
    /\ connected = TRUE
    /\ tcalls = << >>
    /\ motor_speed = [m \in MotorIDs |-> 0]
    /\ motor_dir = [m \in MotorIDs |-> RELEASE]
    /\ shutdown = FALSE
    /\ imu_msg = NoImu
InitCommon ==
    /\ now = 0
    /\ last_time_cmd_rcv = 0
    /\ received = FALSE
    /\ msg = [linear |-> 0, angular |-> 0]
    /\ lmotor_speed = 0
    /\ rmotor_speed = 0
    /\ hpc = "wait"
    /\ hcalls = << >>
    /\ tpc = "loop"
    /\ connected = TRUE
    /\ tcalls = << >>
    /\ motor_speed = [m \in MotorIDs |-> 0]
    /\ motor_dir = [m \in MotorIDs |-> RELEASE]
    /\ shutdown = FALSE
    /\ imu_msg = NoImu

InitConfig ==
    \/ /\ has_param = TRUE
       /\ max_pwm \in MaxPwmValues
       /\ k_speed \in KSpeedValues
       /\ k_angular \in KAngularValues
    \/ /\ has_param = FALSE
       /\ max_pwm = 0
       /\ k_speed = 0
       /\ k_angular = 0

Init == InitConfig /\ InitCommon

(* --------------------- the /cmd_vel callback thread ------------------- *)
\* lines 62-74: the callback is entered with a Twist, saves the time and
\* mixes.  Without /drive the gains were never set and line 73 raises
\* AttributeError, which ends this callback after the time was saved (rospy
\* logs the exception of a callback and delivers the next message).
CmdVel(lin, ang) ==
    /\ hpc = "wait"
    /\ now + timeout_s <= MaxTime
    /\ received' = TRUE
    /\ msg' = [linear |-> lin, angular |-> ang]
    /\ last_time_cmd_rcv' = now
    /\ hcalls' = << >>
    /\ IF has_param
         THEN /\ lmotor_speed' = LeftSpeed(k_speed, k_angular, lin, ang)
              /\ rmotor_speed' = RightSpeed(k_speed, k_angular, lin, ang)
              /\ hpc' = "L_setSpeed"
         ELSE /\ UNCHANGED <<lmotor_speed, rmotor_speed>>
              /\ hpc' = "wait"
    /\ UNCHANGED <<config, imu_msg, now, loop, motors, shutdown>>

\* the value send_motor_msg was called with for motor m (lines 76-77)
SentValue(m) == IF m = motor_left_ID THEN lmotor_speed ELSE rmotor_speed

HandlerPc(m, step) == (IF m = motor_left_ID THEN "L_" ELSE "R_") \o step

\* lines 84-97: motor.setSpeed(speed)
SendSetSpeed(m) ==
    /\ hpc = HandlerPc(m, "setSpeed")
    /\ LET speed == PwmSpeed(SentValue(m), max_pwm) IN
         /\ motor_speed' = [motor_speed EXCEPT ![m] = speed]
         /\ hcalls' = Append(hcalls, SetSpeedCall(m, speed))
    /\ hpc' = HandlerPc(m, "run")
    /\ UNCHANGED <<config, imu_msg, now, last_time_cmd_rcv, received, msg,
                   lmotor_speed, rmotor_speed, loop, motor_dir, shutdown>>

\* lines 99-103: motor.run(FORWARD | BACKWARD)
\* (variant: the callback returns after the left motor)
SendRun_LeftOnly(m) ==
    /\ hpc = HandlerPc(m, "run")
    /\ LET d == RunDirection(SentValue(m)) IN
         /\ motor_dir' = [motor_dir EXCEPT ![m] = d]
         /\ hcalls' = Append(hcalls, RunCall(m, d))
    /\ hpc' = "wait"
    /\ UNCHANGED <<config, imu_msg, now, last_time_cmd_rcv, received, msg,
                   lmotor_speed, rmotor_speed, loop, motor_speed, shutdown>>
SendRun(m) ==
    /\ hpc = HandlerPc(m, "run")
    /\ LET d == RunDirection(SentValue(m)) IN
         /\ motor_dir' = [motor_dir EXCEPT ![m] = d]
         /\ hcalls' = Append(hcalls, RunCall(m, d))
    /\ hpc' = IF m = motor_left_ID THEN "R_setSpeed" ELSE "wait"
    /\ UNCHANGED <<config, imu_msg, now, last_time_cmd_rcv, received, msg,
                   lmotor_speed, rmotor_speed, loop, motor_speed, shutdown>>

HandlerStep == \E m \in MotorIDs : SendSetSpeed(m) \/ SendRun(m)

(* ------------------------- the main thread: run() --------------------- *)
\* line 123: while not rospy.is_shutdown()
\* (variant: the motors are idled when the loop is left)
LoopTest_IdleOnExit ==
    /\ tpc = "loop"
    /\ tpc' = IF shutdown THEN "done" ELSE "check"
    /\ tcalls' = << >>
    /\ IF shutdown
         THEN /\ motor_speed' = [m \in MotorIDs |-> 0]
              /\ motor_dir' = [m \in MotorIDs |-> RELEASE]
         ELSE UNCHANGED motors
    /\ UNCHANGED <<config, imu_msg, now, last_time_cmd_rcv, handler, connected,
                   shutdown>>
LoopTest ==
    /\ tpc = "loop"
    /\ tpc' = IF shutdown THEN "done" ELSE "check"
    /\ tcalls' = << >>
    /\ UNCHANGED <<config, imu_msg, now, last_time_cmd_rcv, handler, connected,
                   motors, shutdown>>

\* lines 125, 128: if not self.is_controller_connected ... rate.sleep()
Check ==
    /\ tpc = "check"
    /\ connected' = IsControllerConnected
    /\ tpc' = IF IsControllerConnected THEN "loop" ELSE "idle_L_setSpeed"
    /\ UNCHANGED <<config, imu_msg, now, last_time_cmd_rcv, handler, tcalls,
                   motors, shutdown>>

\* lines 107-108: motor.setSpeed(0)
\* (variant: the left motor is given setSpeed(0) twice, the right never)
IdleSetSpeed_LeftTwice(m) ==
    /\ tpc = "idle_" \o HandlerPc(m, "setSpeed")
    /\ motor_speed' = [motor_speed EXCEPT ![motor_left_ID] = 0]
    /\ tcalls' = Append(tcalls, SetSpeedCall(motor_left_ID, 0))
    /\ tpc' = IF m = motor_left_ID THEN "idle_R_setSpeed" ELSE "idle_L_run"
    /\ UNCHANGED <<config, imu_msg, now, last_time_cmd_rcv, handler, connected,
                   motor_dir, shutdown>>
IdleSetSpeed(m) ==
    /\ tpc = "idle_" \o HandlerPc(m, "setSpeed")
    /\ motor_speed' = [motor_speed EXCEPT ![m] = 0]
    /\ tcalls' = Append(tcalls, SetSpeedCall(m, 0))
    /\ tpc' = IF m = motor_left_ID THEN "idle_R_setSpeed" ELSE "idle_L_run"
    /\ UNCHANGED <<config, imu_msg, now, last_time_cmd_rcv, handler, connected,
                   motor_dir, shutdown>>

\* lines 110-111: motor.run(RELEASE); after the right motor, rate.sleep()
\* (variant: BACKWARD in place of RELEASE)
IdleRun_Backward(m) ==
    /\ tpc = "idle_" \o HandlerPc(m, "run")
    /\ motor_dir' = [motor_dir EXCEPT ![m] = BACKWARD]
    /\ tcalls' = Append(tcalls, RunCall(m, BACKWARD))
    /\ tpc' = IF m = motor_left_ID THEN "idle_R_run" ELSE "loop"
    /\ UNCHANGED <<config, imu_msg, now, last_time_cmd_rcv, handler, connected,
                   motor_speed, shutdown>>
IdleRun(m) ==
    /\ tpc = "idle_" \o HandlerPc(m, "run")
    /\ motor_dir' = [motor_dir EXCEPT ![m] = RELEASE]
    /\ tcalls' = Append(tcalls, RunCall(m, RELEASE))
    /\ tpc' = IF m = motor_left_ID THEN "idle_R_run" ELSE "loop"
    /\ UNCHANGED <<config, imu_msg, now, last_time_cmd_rcv, handler, connected,
                   motor_speed, shutdown>>

IdleStep == \E m \in MotorIDs : IdleSetSpeed(m) \/ IdleRun(m)

LoopStep == LoopTest \/ Check \/ IdleStep

(* ---------------------------- environment ----------------------------- *)
\* one second passes
Advance ==
    /\ now < MaxTime
    /\ now' = now + 1
    /\ UNCHANGED <<config, imu_msg, last_time_cmd_rcv, handler, loop, motors, shutdown>>

\* the external shutdown signal
Shutdown ==
    /\ ~shutdown
    /\ shutdown' = TRUE
    /\ UNCHANGED <<config, imu_msg, now, last_time_cmd_rcv, handler, loop, motors>>

\* lines 79-80: the /imu callback stores the sample
\* (variant: the sample also counts as a command for the watchdog)
ImuSubCallback_Refresh(sample) ==
    /\ imu_msg' = sample
    /\ last_time_cmd_rcv' = now
    /\ UNCHANGED <<config, now, handler, loop, motors, shutdown>>
ImuSubCallback(sample) ==
    /\ imu_msg' = sample
    /\ UNCHANGED <<config, now, last_time_cmd_rcv, handler, loop, motors, shutdown>>

ImuReceive == \E sample \in ImuSamples : ImuSubCallback(sample)

\* lines 83-95: send_motor_msg called directly with a motor_ID that is
\* neither 1 nor 2.  Line 85 computes the speed, the else branch of line 93
\* calls rospy.logerror; rospy has logerr (used at line 33) and no logerror,
\* so line 94 raises AttributeError and the return of line 95 is not reached.
SendMotorMsgInvalid(motor_ID, value) ==
    /\ hpc = "wait"
    /\ motor_ID \notin MotorIDs
    /\ hpc' = "raised"
    /\ UNCHANGED <<config, imu_msg, now, last_time_cmd_rcv, received, msg,
                   lmotor_speed, rmotor_speed, hcalls, loop, motors, shutdown>>

DirectCall ==
    \E motor_ID \in InvalidMotorIDs, value \in DirectValues :
        SendMotorMsgInvalid(motor_ID, value)

\* the caller of the direct call deals with the exception and goes on
Caught ==
    /\ hpc = "raised"
    /\ hpc' = "wait"
    /\ UNCHANGED <<config, imu_msg, now, last_time_cmd_rcv, received, msg,
                   lmotor_speed, rmotor_speed, hcalls, loop, motors, shutdown>>

Receive == \E lin \in LinearValues, ang \in AngularValues : CmdVel(lin, ang)

Next ==
    \/ Receive
    \/ HandlerStep
    \/ LoopStep
    \/ Advance
    \/ Shutdown

Spec == Init /\ [][Next]_vars

\* The command path alone: callbacks run one after the other on a node whose
\* /drive group was loaded, over the wide domains.
InitCmd ==
    /\ has_param = TRUE
    /\ max_pwm \in WideMaxPwmValues
    /\ k_speed \in WideKSpeedValues
    /\ k_angular \in WideKAngularValues
    /\ InitCommon

ReceiveWide == \E lin \in WideTwistValues, ang \in WideTwistValues : CmdVel(lin, ang)

NextCmd ==
    \/ ReceiveWide
    \/ HandlerStep

CmdSpec == InitCmd /\ [][NextCmd]_vars

\* Both threads are scheduled and the clock runs; nothing obliges a
\* command to arrive or the shutdown signal to be sent.
Fairness == WF_vars(LoopStep) /\ WF_vars(HandlerStep) /\ WF_vars(Advance)

FairSpec == Init /\ [][Next]_vars /\ Fairness

\* The node with its /imu subscriber.  The /imu callback writes imu_msg
\* only and nothing reads imu_msg, so Spec and FairSpec leave it out.
NextImu ==
    \/ Next
    \/ ImuReceive

ImuSpec == Init /\ [][NextImu]_vars

\* The schedules in which set_actuators_idle, once it has made its first
\* call, makes its other calls before the callback thread makes one of its
\* own.
IdleBusy == tpc \in {"idle_R_setSpeed", "idle_L_run", "idle_R_run"}

NextSerialIdle ==
    \/ Receive
    \/ ~IdleBusy /\ HandlerStep
    \/ LoopStep
    \/ Advance
    \/ Shutdown

SerialIdleSpec == Init /\ [][NextSerialIdle]_vars

\* The command path with direct calls of send_motor_msg for unknown motors.
NextDirect ==
    \/ ReceiveWide
    \/ HandlerStep
    \/ DirectCall
    \/ Caught

DirectSpec == InitCmd /\ [][NextDirect]_vars

(* ----------------------- shared state predicates ---------------------- *)
Idle(m) == motor_speed[m] = 0 /\ motor_dir[m] = RELEASE
AllIdle == \A m \in MotorIDs : Idle(m)

\* neither thread is partway through its hardware calls
Quiescent == hpc = "wait" /\ tpc \in {"loop", "check", "done"}

\* the fields of the Twist of the latest callback, units of 1/Den
Lin == msg.linear
Ang == msg.angular

(* -------------------------------- C1 ---------------------------------- *)
\* C1: once commands have stopped and while the loop keeps ticking (no
\* shutdown signal), both motors eventually have duty cycle 0 and direction
\* RELEASE for good; and from such a state with the callback finished, any
\* step other than the arrival of a new command leaves them so.
C1_FailsafeLiveness ==
    /\ <>[](shutdown \/ AllIdle)
    /\ [][(AllIdle /\ hpc = "wait" /\ hpc' = "wait") => AllIdle']_vars

\* a handled command actuated the motors, then the loop idled them after
\* the timeout
C1_Witness ==
    /\ has_param /\ received /\ hpc = "wait" /\ ~shutdown
    /\ Len(hcalls) = 4
    /\ hcalls[1].speed > 0
    /\ now - last_time_cmd_rcv >= timeout_s
    /\ tpc = "loop" /\ Len(tcalls) = 4
    /\ AllIdle

(* -------------------------------- C2 ---------------------------------- *)
\* what send_motor_msg gives motor m for the latest command
LatestSpeed(m) == PwmSpeed(SentValue(m), max_pwm)
LatestDir(m) == RunDirection(SentValue(m))
PerLatest(m) == motor_speed[m] = LatestSpeed(m) /\ motor_dir[m] = LatestDir(m)

\* C2: whenever neither thread is partway through its hardware calls and a
\* command has been received (with /drive loaded, so that the command
\* derives an output), the motor output is either the pairs derived from
\* the latest command, or both motors (0, RELEASE) with the timeout elapsed
\* since that command.
C2_ExactlyOneDirective ==
    (Quiescent /\ received /\ has_param) =>
        \/ \A m \in MotorIDs : PerLatest(m)
        \/ AllIdle /\ now - last_time_cmd_rcv >= timeout_s

(* -------------------------------- C3 ---------------------------------- *)
\* C3: the calls of send_motor_msg and of set_actuators_idle on one motor
\* are serialized, so that once both threads are done each motor holds
\* either the pair of the latest command or (0, RELEASE), never a mix of
\* the duty cycle of one path with the direction of the other.
C3_NoMixedState ==
    (Quiescent /\ received /\ has_param) =>
        \A m \in MotorIDs : PerLatest(m) \/ Idle(m)

(* -------------------------------- C4 ---------------------------------- *)
\* C4: is_controller_connected is true right after a command is received;
\* it is false in every state with now - lastCommandTimestamp >= 5 s
\* (5 s exactly included); once false it stays false over every step that
\* is not the receipt of a command.
C4_WatchdogStates ==
    [][ /\ Receive => IsControllerConnected'
        /\ (now' - last_time_cmd_rcv' >= timeout_s) => ~IsControllerConnected'
        /\ (~IsControllerConnected /\ ~Receive) => ~IsControllerConnected'
      ]_vars

\* ALIVE -> EXPIRED -> ALIVE: the loop read the watchdog as expired and is
\* about to idle, and a command received since then made it alive again
C4_Witness ==
    /\ tpc = "idle_L_setSpeed" /\ ~connected
    /\ received /\ last_time_cmd_rcv >= timeout_s
    /\ IsControllerConnected

(* -------------------------------- C5 ---------------------------------- *)
\* the four calls of one callback: setSpeed then a direction on LEFT, then
\* the same on RIGHT
ActuatesBoth(calls) ==
    /\ Len(calls) = 4
    /\ calls[1].op = "setSpeed" /\ calls[1].motor = motor_left_ID
    /\ calls[2].op = "run" /\ calls[2].motor = motor_left_ID
    /\ calls[3].op = "setSpeed" /\ calls[3].motor = motor_right_ID
    /\ calls[4].op = "run" /\ calls[4].motor = motor_right_ID

\* C5: every callback that has refreshed the timestamp and returned has
\* issued setSpeed and a direction call for both motors, whether or not
\* /drive was present at startup.
C5_RefreshImpliesActuation ==
    (received /\ hpc = "wait") => ActuatesBoth(hcalls)

(* -------------------------------- C6 ---------------------------------- *)
\* the calls of set_actuators_idle, in the order of lines 107-111
IdleCalls ==
    << SetSpeedCall(motor_left_ID, 0), SetSpeedCall(motor_right_ID, 0),
       RunCall(motor_left_ID, RELEASE), RunCall(motor_right_ID, RELEASE) >>

\* C6: a tick whose check finds now - lastCommandTimestamp >= 5 s makes
\* exactly the four calls of set_actuators_idle, once; a tick whose check
\* finds the watchdog alive makes no hardware call; and no step of the loop
\* changes the timestamp, nor, when the check found it alive, a motor.
C6_TickBehaviour ==
    [][ /\ (Check /\ now - last_time_cmd_rcv >= timeout_s) =>
               (~connected' /\ tpc' # "loop")
        /\ (Check /\ now - last_time_cmd_rcv < timeout_s) =>
               (connected' /\ tpc' = "loop" /\ tcalls' = << >>
                /\ UNCHANGED <<motor_speed, motor_dir>>)
        /\ (LoopStep /\ tpc' = "loop") =>
               tcalls' = (IF connected' THEN << >> ELSE IdleCalls)
        /\ LoopStep => UNCHANGED last_time_cmd_rcv
      ]_vars

\* a tick after a handled command found the watchdog expired and idled
C6_Witness ==
    /\ received /\ has_param
    /\ tpc = "loop" /\ ~connected /\ tcalls = IdleCalls
    /\ now - last_time_cmd_rcv >= timeout_s

(* -------------------------------- C7 ---------------------------------- *)
\* the value send_motor_msg was called with when it made call c
ValueOf(c) == SentValue(c.motor)

\* C7: every duty cycle passed to setSpeed by send_motor_msg lies in
\* [0, max_pwm]; a wheel speed of magnitude 1 or more gives max_pwm.
C7_DutyInRange ==
    \A i \in DOMAIN hcalls :
        hcalls[i].op = "setSpeed" =>
            /\ 0 <= hcalls[i].speed
            /\ hcalls[i].speed <= max_pwm
            /\ Abs(ValueOf(hcalls[i])) >= WheelDen => hcalls[i].speed = max_pwm

\* setSpeed was called for a negative wheel speed of magnitude above 1 and
\* was given max_pwm
C7_Witness ==
    \E i \in DOMAIN hcalls :
        /\ hcalls[i].op = "setSpeed"
        /\ ValueOf(hcalls[i]) < -WheelDen
        /\ hcalls[i].speed = max_pwm

(* -------------------------------- C8 ---------------------------------- *)
\* C8 as stated: the duty cycle sent is
\* clamp(round(abs(wheelSpeed) * max_pwm), 0, max_pwm): max_pwm when the
\* magnitude is 1 or more, and otherwise an integer nearest to
\* abs(wheelSpeed) * max_pwm (a half may go either way).
C8_RoundedDuty ==
    \A i \in DOMAIN hcalls :
        hcalls[i].op = "setSpeed" =>
            LET a == Abs(ValueOf(hcalls[i])) * max_pwm
                d == hcalls[i].speed
            IN  IF Abs(ValueOf(hcalls[i])) >= WheelDen
                  THEN d = max_pwm
                  ELSE 2 * Abs(d * WheelDen - a) <= WheelDen

\* C8 amended: the duty cycle sent is abs(wheelSpeed) * max_pwm cut to
\* max_pwm and then truncated toward zero: it is max_pwm when the magnitude
\* is 1 or more, and otherwise the integer d with
\* d <= abs(wheelSpeed) * max_pwm < d + 1.
C8_TruncatedDuty ==
    \A i \in DOMAIN hcalls :
        hcalls[i].op = "setSpeed" =>
            LET a == Abs(ValueOf(hcalls[i])) * max_pwm
                d == hcalls[i].speed
            IN  IF Abs(ValueOf(hcalls[i])) >= WheelDen
                  THEN d = max_pwm
                  ELSE d * WheelDen <= a /\ a < (d + 1) * WheelDen

\* wheelSpeed = -0.5 with an odd max_pwm was sent (max_pwm - 1) / 2
C8_Witness ==
    \E i \in DOMAIN hcalls :
        /\ hcalls[i].op = "setSpeed"
        /\ 2 * ValueOf(hcalls[i]) = -WheelDen
        /\ max_pwm % 2 = 1
        /\ 2 * hcalls[i].speed = max_pwm - 1

(* -------------------------------- C9 ---------------------------------- *)
\* C9: every direction call of send_motor_msg is FORWARD when the wheel
\* speed is above 0 and BACKWARD otherwise, never RELEASE; a callback that
\* has handled the zero command leaves both motors at (0, BACKWARD).
C9_DirectionBySign ==
    /\ \A i \in DOMAIN hcalls :
           hcalls[i].op = "run" =>
               /\ ValueOf(hcalls[i]) > 0 => hcalls[i].dir = FORWARD
               /\ ValueOf(hcalls[i]) <= 0 => hcalls[i].dir = BACKWARD
    /\ (received /\ hpc = "wait" /\ Lin = 0 /\ Ang = 0) =>
           \A m \in MotorIDs : motor_speed[m] = 0 /\ motor_dir[m] = BACKWARD

\* the zero command has been handled: four calls, both motors (0, BACKWARD)
C9_Witness ==
    /\ received /\ hpc = "wait" /\ Lin = 0 /\ Ang = 0
    /\ Len(hcalls) = 4
    /\ hcalls[2].dir = BACKWARD /\ hcalls[4].dir = BACKWARD
    /\ \A m \in MotorIDs : motor_speed[m] = 0 /\ motor_dir[m] = BACKWARD

(* -------------------------------- C10 --------------------------------- *)
\* C10: the callback calls send_motor_msg with
\*   left  = k_speed*(linear - 0.5*k_angular*angular)
\*   right = k_speed*(linear + 0.5*k_angular*angular),
\* unsaturated: in units of 1/WheelDen the two add up to 2*k_speed*linear
\* and differ by k_speed*k_angular*angular, left being the smaller when the
\* product is positive.  With linear = 1, angular = 0 and unit gains both
\* motors end FORWARD at max_pwm.
C10_MixingLaw ==
    received =>
        /\ lmotor_speed + rmotor_speed = 4 * Den * k_speed * Lin
        /\ rmotor_speed - lmotor_speed = 2 * k_speed * k_angular * Ang
        /\ (hpc = "wait" /\ Lin = Den /\ Ang = 0 /\ k_speed = Den /\ k_angular = Den) =>
               \A m \in MotorIDs :
                   motor_speed[m] = max_pwm /\ motor_dir[m] = FORWARD

\* linear = 1, angular = 0, unit gains: handled, both motors FORWARD at
\* max_pwm
C10_Witness ==
    /\ received /\ hpc = "wait"
    /\ Lin = Den /\ Ang = 0 /\ k_speed = Den /\ k_angular = Den
    /\ lmotor_speed = WheelDen /\ rmotor_speed = WheelDen
    /\ \A m \in MotorIDs : motor_speed[m] = max_pwm /\ motor_dir[m] = FORWARD

(* -------------------------------- C11 --------------------------------- *)
\* C11: in every run of set_actuators_idle each RELEASE call on a channel
\* comes after a setSpeed(0) on that channel, whatever the motors held
\* before; and a run whose calls are not interleaved with calls of the
\* callback ends with both motors at (0, RELEASE).
C11_IdleOrder ==
    [][ /\ \A i \in DOMAIN tcalls' :
               tcalls'[i].op = "run" =>
                   /\ tcalls'[i].dir = RELEASE
                   /\ \E j \in 1 .. (i - 1) :
                          tcalls'[j] = SetSpeedCall(tcalls'[i].motor, 0)
        /\ IdleRun(motor_right_ID) => (tcalls' = IdleCalls /\ AllIdle')
      ]_vars

\* set_actuators_idle has just completed on motors that the latest command
\* had set running
C11_Witness ==
    /\ has_param /\ received /\ hpc = "wait"
    /\ Len(hcalls) = 4 /\ hcalls[1].speed > 0 /\ hcalls[3].speed > 0
    /\ hcalls[2].dir = FORWARD
    /\ tpc = "loop" /\ tcalls = IdleCalls
    /\ AllIdle

(* -------------------------------- C12 --------------------------------- *)
\* C12: send_motor_msg with a motor id outside {1, 2} makes no hardware
\* call, leaves the motor outputs and the timestamp as they were, and
\* returns normally to its caller.
C12_InvalidIdReturns ==
    [][ DirectCall =>
            /\ UNCHANGED <<motor_speed, motor_dir, last_time_cmd_rcv, hcalls, tcalls>>
            /\ hpc' = "wait"
      ]_vars

(* -------------------------------- C13 --------------------------------- *)
\* C13: on a node started without /drive the loop runs and, unless the
\* shutdown signal comes, always gets to a tick that has made the four
\* calls of set_actuators_idle with both motors at (0, RELEASE); callbacks
\* never bring the callback thread or the loop to a halt.
C13_FailsafeWithoutConfig ==
    /\ (~has_param /\ ~shutdown) ~> (shutdown \/ (tcalls = IdleCalls /\ AllIdle))
    /\ [](~has_param => (hpc = "wait" /\ AllIdle))

\* without /drive, commands were received, then 5 s passed and the loop
\* idled the motors
C13_Witness ==
    /\ ~has_param /\ received /\ ~shutdown
    /\ now - last_time_cmd_rcv >= timeout_s
    /\ last_time_cmd_rcv > 0
    /\ tpc = "loop" /\ tcalls = IdleCalls
    /\ AllIdle

(* -------------------------------- C14 --------------------------------- *)
\* C14: the receipt of an inertial sample stores that sample and changes
\* neither the timestamp nor a motor output, makes no hardware call, and
\* leaves is_controller_connected as it was.
C14_ImuFrame ==
    [][ \A sample \in ImuSamples :
            ImuSubCallback(sample) =>
                /\ imu_msg' = sample
                /\ UNCHANGED <<last_time_cmd_rcv, motor_speed, motor_dir,
                               hcalls, tcalls>>
                /\ IsControllerConnected' <=> IsControllerConnected
      ]_vars

\* a sample is stored, no command was ever received, the watchdog has
\* expired and the loop has idled
C14_Witness ==
    /\ imu_msg = "imu_b"
    /\ ~received
    /\ ~IsControllerConnected
    /\ tpc = "loop" /\ tcalls = IdleCalls

(* -------------------------------- C15 --------------------------------- *)
\* C15: the timestamp starts at the construction time (0): during the
\* first 5 s the watchdog is alive and no tick makes an idle call; as long
\* as no command was received the watchdog is expired exactly from 5 s on,
\* and a tick that has read it expired has made the idle calls.
C15_InitialWatchdog ==
    /\ now < timeout_s =>
           /\ IsControllerConnected
           /\ connected
           /\ tcalls = << >>
           /\ tpc \in {"loop", "check", "done"}
    /\ ~received =>
           /\ last_time_cmd_rcv = 0
           /\ IsControllerConnected <=> now < timeout_s
           /\ (tpc = "loop" /\ ~connected) => tcalls = IdleCalls

\* no command was ever received and, 5 s after construction, a tick has
\* idled the motors
C15_Witness ==
    /\ ~received
    /\ now = timeout_s
    /\ tpc = "loop" /\ ~connected /\ tcalls = IdleCalls

(* -------------------------------- C16 --------------------------------- *)
\* the calls a callback has made when it stands at position pc
ExpectedCalls(pc) ==
    LET all == << SetSpeedCall(motor_left_ID, LatestSpeed(motor_left_ID)),
                  RunCall(motor_left_ID, LatestDir(motor_left_ID)),
                  SetSpeedCall(motor_right_ID, LatestSpeed(motor_right_ID)),
                  RunCall(motor_right_ID, LatestDir(motor_right_ID)) >>
        n == CASE pc = "L_setSpeed" -> 0
               [] pc = "L_run" -> 1
               [] pc = "R_setSpeed" -> 2
               [] pc = "R_run" -> 3
               [] OTHER -> 4
    IN  SubSeq(all, 1, n)

\* C16: with /drive loaded, a callback resets the timestamp before its
\* first hardware call and then makes exactly four calls in the order
\* LEFT.setSpeed, LEFT.run, RIGHT.setSpeed, RIGHT.run: each send_motor_msg
\* makes one setSpeed and then one direction call, both on its own motor.
C16_FourCallsInOrder ==
    [][ /\ (has_param' /\ received') => hcalls' = ExpectedCalls(hpc')
        /\ Receive => (last_time_cmd_rcv' = now /\ hcalls' = << >>)
        /\ \A m \in MotorIDs :
               (SendSetSpeed(m) \/ SendRun(m)) =>
                   /\ Len(hcalls') = Len(hcalls) + 1
                   /\ hcalls'[Len(hcalls')].motor = m
                   /\ \A o \in MotorIDs \ {m} :
                          /\ motor_speed'[o] = motor_speed[o]
                          /\ motor_dir'[o] = motor_dir[o]
      ]_vars

\* a callback has returned after its four calls, LEFT before RIGHT
C16_Witness ==
    /\ has_param /\ received /\ hpc = "wait"
    /\ ActuatesBoth(hcalls)
    /\ hcalls[1].speed # hcalls[3].speed
    /\ last_time_cmd_rcv > 0

(* -------------------------------- C17 --------------------------------- *)
\* C17: with both motors at (0, RELEASE), every further call of
\* set_actuators_idle leaves them at (0, RELEASE), so a second run ends as
\* the first did; and no call of set_actuators_idle changes the timestamp.
C17_IdleIdempotent ==
    [][ IdleStep =>
            /\ AllIdle => AllIdle'
            /\ UNCHANGED last_time_cmd_rcv
      ]_vars

\* a later run of set_actuators_idle is under way on motors that an
\* earlier run has already released after the latest command drove them
C17_Witness ==
    /\ has_param /\ received /\ hpc = "wait"
    /\ Len(hcalls) = 4 /\ hcalls[1].speed > 0 /\ hcalls[3].speed > 0
    /\ tpc = "idle_R_run" /\ Len(tcalls) = 3
    /\ AllIdle

(* -------------------------------- C18 --------------------------------- *)
\* C18: the loop ends only after the shutdown signal; the step that ends
\* it makes no hardware call and changes no motor; and once it has ended
\* the loop never runs again, so that with the callback at rest the motors
\* keep the duty cycle and direction they have.
C18_ExitWithoutIdle ==
    [][ /\ tpc' = "done" => shutdown'
        /\ (tpc # "done" /\ tpc' = "done") =>
               /\ shutdown
               /\ tcalls' = << >>
               /\ UNCHANGED <<motor_speed, motor_dir>>
        /\ tpc = "done" => tpc' = "done"
        /\ (tpc = "done" /\ hpc = "wait" /\ hpc' = "wait") =>
               UNCHANGED <<motor_speed, motor_dir>>
      ]_vars

\* the loop has ended while the watchdog was alive, and the motors still
\* run as the latest command set them
C18_Witness ==
    /\ tpc = "done" /\ shutdown
    /\ has_param /\ received /\ hpc = "wait"
    /\ IsControllerConnected
    /\ \A m \in MotorIDs : PerLatest(m) /\ motor_speed[m] > 0

=============================================================================
